---- MODULE Spec2Model ----
(***************************************************************************)
(* A model of the maesh controller: the TCP port mapping backed by a       *)
(* ConfigMap (pkg/k8s/tcpportmapping.go), the shadow ("mesh") service      *)
(* operations that call it, and the controller's Run loop.                 *)
(*                                                                         *)
(* Strings are sequences of one-character strings, so that formatting and  *)
(* parsing of ConfigMap entries are computed the way the code computes     *)
(* them.                                                                   *)
(***************************************************************************)
EXTENDS Integers, Sequences, FiniteSets, TLC

\* ------------------------------------------------------------------ bounds

\* Number of ports of the range [minPort, maxPort] (the code's range has 101).
PortRangeSize == 2

\* Service events the informer goroutine handles in the model.
MaxEvents == 1

\* Restarts of the controller process in the model of its state's reload.
MaxRestarts == 1

\* ------------------------------------------------------- program constants

\* k8s.NewTCPPortMapping(..., 10000, 10100): the lower end of the range.
MinPort == 10000

MaxPort == MinPort + PortRangeSize - 1

\* retry.DefaultRetry: wait.Backoff{Steps: 5, ...}.
RetrySteps == 5

\* intstr.FromInt(5000 + id)
HTTPPortBase == 5000

\* mesh.defaultMode of the chart values.
defaultMode == "http"

ServiceTypeTCP == "tcp"

ProtocolTCP == "TCP"

ProtocolUDP == "UDP"

\* metav1.NamespaceDefault
NamespaceDefault == <<"d", "e", "f", "a", "u", "l", "t">>

\* the controller's mesh namespace
meshNamespace == <<"m">>

\* ----------------------------------------------------------------- strings

Digits == <<"0", "1", "2", "3", "4", "5", "6", "7", "8", "9">>

IsDigit(c) == \E d \in 0..9 : Digits[d + 1] = c

DigitVal(c) == CHOOSE d \in 0..9 : Digits[d + 1] = c

RECURSIVE FormatUint(_)
FormatUint(n) ==
    IF n < 10 THEN <<Digits[n + 1]>>
    ELSE FormatUint(n \div 10) \o <<Digits[(n % 10) + 1]>>

\* strconv.Itoa and the %d verb of fmt.Sprintf
Itoa(n) == IF n < 0 THEN <<"-">> \o FormatUint(-n) ELSE FormatUint(n)

RECURSIVE DigitsValue(_)
DigitsValue(s) ==
    IF Len(s) = 0 THEN 0
    ELSE DigitsValue(SubSeq(s, 1, Len(s) - 1)) * 10 + DigitVal(s[Len(s)])

\* The largest int32, 2147483647, as its first nine digits and its last one.
MaxInt32Head == 214748364

MaxInt32Last == 7

\* strconv.ParseInt(s, 10, 32): an optional sign, then decimal digits only,
\* and a value that fits 32 bits (every value of up to 9 digits does; one of
\* 10 digits is compared with 2147483647). Digit strings longer than 10
\* characters and "-2147483648" are outside the model.
ParseInt(s) ==
    LET signed == Len(s) > 0 /\ s[1] \in {"-", "+"}
        body == IF signed THEN Tail(s) ELSE s
        fits == IF Len(body) < 10 THEN TRUE
                ELSE LET head == DigitsValue(SubSeq(body, 1, 9))
                     IN  \/ head < MaxInt32Head
                         \/ head = MaxInt32Head /\ DigitVal(body[10]) <= MaxInt32Last
    IN  IF Len(body) = 0 \/ Len(body) > 10
           \/ \E k \in 1..Len(body) : ~IsDigit(body[k])
        THEN [ok |-> FALSE, val |-> 0]
        ELSE IF ~fits THEN [ok |-> FALSE, val |-> 0]
        ELSE [ok |-> TRUE,
              val |-> IF signed /\ s[1] = "-" THEN 0 - DigitsValue(body)
                      ELSE DigitsValue(body)]

\* strings.Split(s, sep) for a one-character separator
RECURSIVE Split(_, _)
Split(s, sep) ==
    IF \A k \in 1..Len(s) : s[k] # sep THEN <<s>>
    ELSE LET k == CHOOSE j \in 1..Len(s) :
                      s[j] = sep /\ \A m \in 1..(j - 1) : s[m] # sep
         IN  <<SubSeq(s, 1, k - 1)>> \o Split(SubSeq(s, k + 1, Len(s)), sep)

\* ---------------------------------------------------------- ConfigMap entries

NoRef == [Namespace |-> <<>>, Name |-> <<>>, Port |-> 0]

ServiceWithPort(namespace, name, port) ==
    [Namespace |-> namespace, Name |-> name, Port |-> port]

\* A format with the name and the namespace in each other's place.
formatServiceNamePortSwapped(name, namespace, port) ==
    name \o <<"/">> \o namespace \o <<":">> \o Itoa(port)

\* fmt.Sprintf("%s/%s:%d", namespace, name, port)
formatServiceNamePort(name, namespace, port) ==
    namespace \o <<"/">> \o name \o <<":">> \o Itoa(port)

parseServiceNamePort(value) ==
    LET service == Split(value, ":")
    IN  IF Len(service) < 2 THEN [ok |-> FALSE, svc |-> NoRef]
        ELSE LET port64 == ParseInt(service[2])
                 substring == Split(service[1], "/")
             IN  IF ~port64.ok THEN [ok |-> FALSE, svc |-> NoRef]
                 ELSE IF Len(substring) = 1
                 THEN [ok |-> TRUE,
                       svc |-> ServiceWithPort(NamespaceDefault, substring[1], port64.val)]
                 ELSE [ok |-> TRUE,
                       svc |-> ServiceWithPort(substring[1], substring[2], port64.val)]

EmptyData == [k \in {} |-> <<>>]

\* loadState's loop body: the entries of cfg.Data that parse, as (port, svc).
LoadableEntries(data) ==
    {[port |-> ParseInt(k).val, svc |-> parseServiceNamePort(data[k]).svc] :
        k \in {x \in DOMAIN data : ParseInt(x).ok /\ parseServiceNamePort(data[x]).ok}}

\* The tables loadState can build from cfg.Data: Go iterates the map in an
\* unspecified order, so two keys that parse to one port leave either value.
LoadStates(data) ==
    LET es == LoadableEntries(data)
        ps == {e.port : e \in es}
    IN  {f \in [ps -> {e.svc : e \in es}] :
            \A p \in ps : \E e \in es : e.port = p /\ e.svc = f[p]}

\* saveState's loop: every entry of the table written into the copy's Data.
MergeTable(data, tbl) ==
    LET keys == {Itoa(k) : k \in DOMAIN tbl}
    IN  [key \in (DOMAIN data) \cup keys |->
            IF key \in keys
            THEN LET k == CHOOSE p \in DOMAIN tbl : Itoa(p) = key
                 IN  formatServiceNamePort(tbl[k].Name, tbl[k].Namespace, tbl[k].Port)
            ELSE data[key]]

\* A Find that never has a match.
FindPortsNone(tbl, svc) == {}

\* Find's loop over the table: the ports whose entry equals svc. Go iterates
\* the map in an unspecified order, so Find returns any one of them.
FindPorts(tbl, svc) ==
    {port \in DOMAIN tbl :
        tbl[port].Name = svc.Name /\ tbl[port].Namespace = svc.Namespace
        /\ tbl[port].Port = svc.Port}

\* Get(srcPort): the entry of the table, nil (NoRef) when there is none
Get(tbl, srcPort) == IF srcPort \in DOMAIN tbl THEN tbl[srcPort] ELSE NoRef

\* ------------------------------------------------------------ user services

PortWeb == [Name |-> "web", Port |-> 80, Protocol |-> ProtocolTCP]

PortAlt == [Name |-> "alt", Port |-> 81, Protocol |-> ProtocolTCP]

PortDNS == [Name |-> "dns", Port |-> 53, Protocol |-> ProtocolUDP]

\* The user service objects of the model: namespace, name, the traffic-type
\* annotation ("" when absent) and Spec.Ports.
UserServices ==
    {[Namespace |-> NamespaceDefault, Name |-> <<"a">>,
      Annotation |-> ServiceTypeTCP, Ports |-> <<PortWeb, PortAlt>>],
     [Namespace |-> NamespaceDefault, Name |-> <<"a">>,
      Annotation |-> "", Ports |-> <<PortDNS, PortWeb>>],
     [Namespace |-> NamespaceDefault, Name |-> <<"b">>,
      Annotation |-> ServiceTypeTCP, Ports |-> <<PortWeb>>]}

NoSvc == [Namespace |-> <<>>, Name |-> <<>>, Annotation |-> "", Ports |-> <<>>]

Key(s) == <<s.Namespace, s.Name>>

\* userServiceToMeshServiceName: "%s-%s-6d61657368-%s"
userServiceToMeshServiceName(serviceName, namespace) ==
    meshNamespace \o <<"-">> \o serviceName
    \o <<"-", "6", "d", "6", "1", "6", "5", "7", "3", "6", "8", "-">> \o namespace

MeshName(s) == userServiceToMeshServiceName(s.Name, s.Namespace)

\* serviceMode: the annotation, or the default mode when it is empty
ServiceMode(s) == IF s.Annotation = "" THEN defaultMode ELSE s.Annotation

\* A mesh port that takes the target port as its port too.
MeshPortTargetOnly(sp, targetPort) ==
    [Name |-> sp.Name, Port |-> targetPort, TargetPort |-> targetPort]

\* the corev1.ServicePort appended to the mesh service's ports
MeshPort(sp, targetPort) ==
    [Name |-> sp.Name, Port |-> sp.Port, TargetPort |-> targetPort]

\* ---------------------------------------------------------------------- state

VARIABLES
    table,      \* TCPPortMapping.table: port -> ServiceWithPort
    store,      \* the ConfigMap in the API server: [data, rv]
    cache,      \* the ConfigMap as the lister's cache holds it: [data, rv]
    shadow,     \* the mesh services of the cluster: name -> [ports, rv]
    cluster,    \* the user services of the cluster
    th,         \* per goroutine: position and locals
    granted,    \* history: (ref, port) of every Add that returned a port
    events      \* service events handled so far

VARIABLES
    rpc,                \* position of Controller.Run
    lastConfiguration,  \* c.lastConfiguration
    ready,              \* the api's readiness flag
    pods,               \* the mesh pods of the cluster
    pending,            \* pods whose deploy task has not finished
    failed,             \* pods whose deploy task returned an error
    cycle,              \* history: what the current/last select case did
    delivered,          \* history: a fan-out ended without error after a push
    timer               \* the 10 s timer of the current loop iteration

avars == <<table, store, cache, shadow, cluster, th, granted, events>>

rvars == <<rpc, lastConfiguration, ready, pods, pending, failed, cycle, delivered,
           timer>>

vars == <<table, store, cache, shadow, cluster, th, granted, events,
          rpc, lastConfiguration, ready, pods, pending, failed, cycle, delivered,
          timer>>

Threads == {"run", "handler"}

EmptyTable == [p \in {} |-> NoRef]

NoCfg == [data |-> EmptyData, rv |-> 0]

NoRet == [port |-> 0, err |-> "none"]

\* A goroutine at position pc with its locals cleared.
Fresh(pc) ==
    [pc |-> pc, op |-> "none", svc |-> NoSvc, id |-> 0, ports |-> <<>>,
     ref |-> NoRef, i |-> 0, cfg |-> NoCfg, cpy |-> EmptyData, attempt |-> 0,
     callTable |-> EmptyTable, ret |-> NoRet, fetched |-> 0, tries |-> 0,
     err |-> "none", did |-> "none", todo |-> <<>>]

Set(t, r) == th' = [th EXCEPT ![t] = r]

\* The orderings of a set, as sequences (ServiceLister.List returns a slice).
RECURSIVE Orderings(_)
Orderings(S) ==
    IF S = {} THEN {<<>>}
    ELSE UNION {{<<x>> \o o : o \in Orderings(S \ {x})} : x \in S}

\* The port loop of createMeshService and updateMeshService, run from source
\* port r.id up to the next call of getTCPPort or to the end of the ports:
\* non-TCP ports are skipped, http mode takes 5000 + id, tcp mode asks
\* getTCPPort. (The loop touches nothing but the call's locals.)
RECURSIVE PortLoop(_)
PortLoop(r) ==
    IF r.id >= Len(r.svc.Ports)
    THEN [r EXCEPT !.pc = "submit"]
    ELSE IF r.svc.Ports[r.id + 1].Protocol # ProtocolTCP
    THEN PortLoop([r EXCEPT !.id = @ + 1])
    ELSE IF ServiceMode(r.svc) = ServiceTypeTCP
    THEN [r EXCEPT !.pc = "find",
                   !.ref = ServiceWithPort(r.svc.Namespace, r.svc.Name,
                                           r.svc.Ports[r.id + 1].Port)]
    ELSE PortLoop([r EXCEPT
            !.id = @ + 1,
            !.ports = Append(@, MeshPort(r.svc.Ports[r.id + 1], HTTPPortBase + r.id))])

\* --------------------------------------------------------- port mapping: Find

\* getTCPPort, first half: Find under the read lock. A hit returns the port to
\* the port loop of create/updateMeshService; a miss calls Add.
FindStep(t) ==
    /\ th[t].pc = "find"
    /\ \/ \E port \in FindPorts(table, th[t].ref) :
            Set(t, PortLoop([th[t] EXCEPT
                !.id = @ + 1, !.ref = NoRef,
                !.ports = Append(@, MeshPort(th[t].svc.Ports[th[t].id + 1], port))]))
       \/ /\ FindPorts(table, th[t].ref) = {}
          /\ Set(t, [th[t] EXCEPT !.pc = "scan", !.i = MinPort])
    /\ UNCHANGED <<table, store, cache, shadow, cluster, granted, events>>
    /\ UNCHANGED rvars

\* ---------------------------------------------------------- port mapping: Add

\* A test of the port that never finds it taken.
PortTakenNever(tbl, i) == FALSE

\* Add's test of a port: _, exists := m.table[i]
PortTaken(tbl, i) == i \in DOMAIN tbl

\* Add's loop: one read of m.table[i], taken without the lock. (callTable
\* remembers the table as it is when the loop starts.)
ScanStep(t) ==
    /\ th[t].pc = "scan"
    /\ LET r == IF th[t].i = MinPort THEN [th[t] EXCEPT !.callTable = table] ELSE th[t]
       IN  IF r.i > MaxPort
           THEN Set(t, [r EXCEPT !.pc = "addRet",
                                 !.ret = [port |-> 0, err |-> "exhausted"]])
           ELSE IF PortTaken(table, r.i)
           THEN Set(t, [r EXCEPT !.i = @ + 1])
           ELSE Set(t, [r EXCEPT !.pc = "write"])
    /\ UNCHANGED <<table, store, cache, shadow, cluster, granted, events>>
    /\ UNCHANGED rvars

\* m.table[i] = svc, under the write lock.
TableWrite(tbl, i, svc) ==
    [p \in (DOMAIN tbl) \cup {i} |-> IF p = i THEN svc ELSE tbl[p]]

WriteStep(t) ==
    /\ th[t].pc = "write"
    /\ table' = TableWrite(table, th[t].i, th[t].ref)
    /\ Set(t, [th[t] EXCEPT !.pc = "saveGet"])
    /\ UNCHANGED <<store, cache, shadow, cluster, granted, events>>
    /\ UNCHANGED rvars

\* saveState: cfg is read once, from the lister's cache.
SaveGet(t) ==
    /\ th[t].pc = "saveGet"
    /\ Set(t, [th[t] EXCEPT !.pc = "saveMerge", !.cfg = cache, !.attempt = 0])
    /\ UNCHANGED <<table, store, cache, shadow, cluster, granted, events>>
    /\ UNCHANGED rvars

\* The retried function, first half: a copy of cfg with the table written
\* into its Data, under the read lock.
SaveMerge(t) ==
    /\ th[t].pc = "saveMerge"
    /\ Set(t, [th[t] EXCEPT !.pc = "saveUpdate",
                            !.cpy = MergeTable(th[t].cfg.data, table)])
    /\ UNCHANGED <<table, store, cache, shadow, cluster, granted, events>>
    /\ UNCHANGED rvars

\* What Add returns after saveState: the port, or 0 and the wrapped error.
AddResult(i, saveErr) ==
    IF saveErr THEN [port |-> 0, err |-> "save"] ELSE [port |-> i, err |-> "ok"]

\* The retried function, second half: Update of the copy. The API server
\* accepts it when the copy carries the stored resourceVersion, and answers
\* Conflict otherwise; RetryOnConflict then runs the function again, up to
\* RetrySteps times in all. Any other error ends saveState at once.
SaveUpdate(t) ==
    /\ th[t].pc = "saveUpdate"
    /\ \/ /\ th[t].cfg.rv = store.rv
          /\ store' = [data |-> th[t].cpy, rv |-> store.rv + 1]
          /\ granted' = granted \cup {[ref |-> th[t].ref, port |-> th[t].i]}
          /\ Set(t, [th[t] EXCEPT !.pc = "addRet", !.ret = AddResult(th[t].i, FALSE)])
       \/ /\ th[t].cfg.rv # store.rv
          /\ IF th[t].attempt + 1 >= RetrySteps
             THEN Set(t, [th[t] EXCEPT !.pc = "addRet",
                                       !.ret = AddResult(th[t].i, TRUE)])
             ELSE Set(t, [th[t] EXCEPT !.pc = "saveMerge", !.attempt = @ + 1])
          /\ UNCHANGED <<store, granted>>
       \/ /\ Set(t, [th[t] EXCEPT !.pc = "addRet", !.ret = AddResult(th[t].i, TRUE)])
          /\ UNCHANGED <<store, granted>>
    /\ UNCHANGED <<table, cache, shadow, cluster, events>>
    /\ UNCHANGED rvars

\* A port loop that gives the call up, with the error, when getTCPPort fails.
AddReturnAbort(t) ==
    /\ th[t].pc = "addRet"
    /\ IF th[t].ret.err = "ok"
       THEN Set(t, PortLoop([th[t] EXCEPT
                !.id = @ + 1, !.ref = NoRef, !.i = 0, !.cfg = NoCfg,
                !.cpy = EmptyData, !.attempt = 0, !.callTable = EmptyTable,
                !.ret = NoRet,
                !.ports = Append(@, MeshPort(th[t].svc.Ports[th[t].id + 1],
                                             th[t].ret.port))]))
       ELSE Set(t, [Fresh("opRet") EXCEPT !.op = th[t].op, !.svc = th[t].svc,
                                          !.ports = th[t].ports, !.todo = th[t].todo,
                                          !.err = "error"])
    /\ UNCHANGED <<table, store, cache, shadow, cluster, granted, events>>
    /\ UNCHANGED rvars

\* getTCPPort, second half, and the port loop's use of its result: an error
\* skips the port, a port is appended as the mesh port's targetPort.
AddReturn(t) ==
    /\ th[t].pc = "addRet"
    /\ Set(t, PortLoop([th[t] EXCEPT
            !.id = @ + 1, !.ref = NoRef, !.i = 0, !.cfg = NoCfg,
            !.cpy = EmptyData, !.attempt = 0, !.callTable = EmptyTable,
            !.ret = NoRet,
            !.ports = IF th[t].ret.err = "ok"
                      THEN Append(@, MeshPort(th[t].svc.Ports[th[t].id + 1],
                                              th[t].ret.port))
                      ELSE @]))
    /\ UNCHANGED <<table, store, cache, shadow, cluster, granted, events>>
    /\ UNCHANGED rvars

\* The informer brings the lister's cache up to the stored ConfigMap.
CacheSync ==
    /\ cache # store
    /\ cache' = store
    /\ UNCHANGED <<table, store, shadow, cluster, th, granted, events>>
    /\ UNCHANGED rvars

\* ------------------------------------------------------------- mesh services
\* ServiceLister reads are taken to return the cluster's current mesh services.

\* The end of a create/update/delete call: its locals but the result dropped.
Returned(t, err, did) ==
    [Fresh("opRet") EXCEPT !.op = th[t].op, !.svc = th[t].svc, !.ports = th[t].ports,
                           !.todo = th[t].todo, !.err = err, !.did = did]

\* createMeshService's lookup: an existing mesh service ends the call with no
\* error, a missing one starts the port loop.
CreateCheck(t) ==
    /\ th[t].pc = "create"
    /\ IF MeshName(th[t].svc) \in DOMAIN shadow
       THEN Set(t, Returned(t, "ok", "none"))
       ELSE Set(t, PortLoop([th[t] EXCEPT !.id = 0, !.ports = <<>>]))
    /\ UNCHANGED <<table, store, cache, shadow, cluster, granted, events>>
    /\ UNCHANGED rvars

\* updateMeshService's retried function, start: the current mesh service.
UpdateGet(t) ==
    /\ th[t].pc = "update"
    /\ IF MeshName(th[t].svc) \in DOMAIN shadow
       THEN Set(t, PortLoop([th[t] EXCEPT
                    !.id = 0, !.ports = <<>>,
                    !.fetched = shadow[MeshName(th[t].svc)].rv]))
       ELSE Set(t, Returned(t, "error", "none"))
    /\ UNCHANGED <<table, store, cache, shadow, cluster, granted, events>>
    /\ UNCHANGED rvars

ShadowPut(name, ports, rv) ==
    [n \in (DOMAIN shadow) \cup {name} |->
        IF n = name THEN [ports |-> ports, rv |-> rv] ELSE shadow[n]]

\* clients.CreateService / clients.UpdateService with the ports built.
Submit(t) ==
    /\ th[t].pc = "submit"
    /\ LET name == MeshName(th[t].svc)
       IN  \/ /\ th[t].op = "create"
              /\ name \notin DOMAIN shadow
              /\ shadow' = ShadowPut(name, th[t].ports, 1)
              /\ Set(t, Returned(t, "ok", "created"))
           \/ /\ th[t].op = "create"
              /\ Set(t, Returned(t, "error", "none"))
              /\ UNCHANGED shadow
           \/ /\ th[t].op = "update"
              /\ name \in DOMAIN shadow
              /\ shadow[name].rv = th[t].fetched
              /\ shadow' = ShadowPut(name, th[t].ports, shadow[name].rv + 1)
              /\ Set(t, Returned(t, "ok", "updated"))
           \/ /\ th[t].op = "update"
              /\ Set(t, Returned(t, "error", "none"))
              /\ UNCHANGED shadow
           \/ /\ th[t].op = "update"
              /\ name \in DOMAIN shadow
              /\ shadow[name].rv # th[t].fetched
              /\ IF th[t].tries + 1 >= RetrySteps
                 THEN Set(t, Returned(t, "error", "none"))
                 ELSE Set(t, [th[t] EXCEPT !.pc = "update", !.tries = @ + 1])
              /\ UNCHANGED shadow
    /\ UNCHANGED <<table, store, cache, cluster, granted, events>>
    /\ UNCHANGED rvars

\* A deleteMeshService that also takes the service's ports out of the table.
DeleteStepReleasing(t) ==
    /\ th[t].pc = "delete"
    /\ LET name == MeshName(th[t].svc)
       IN  \/ /\ name \notin DOMAIN shadow
              /\ Set(t, Returned(t, "error", "none"))
              /\ UNCHANGED <<shadow, table>>
           \/ /\ name \in DOMAIN shadow
              /\ Set(t, Returned(t, "error", "none"))
              /\ UNCHANGED <<shadow, table>>
           \/ /\ name \in DOMAIN shadow
              /\ shadow' = [n \in (DOMAIN shadow) \ {name} |-> shadow[n]]
              /\ table' = [p \in {q \in DOMAIN table :
                                    \/ table[q].Name # th[t].svc.Name
                                    \/ table[q].Namespace # th[t].svc.Namespace}
                             |-> table[p]]
              /\ Set(t, Returned(t, "ok", "deleted"))
    /\ UNCHANGED <<store, cache, cluster, granted, events>>
    /\ UNCHANGED rvars

\* deleteMeshService: the lookup's error is returned as it is (a missing mesh
\* service included), then DeleteService.
DeleteStep(t) ==
    /\ th[t].pc = "delete"
    /\ LET name == MeshName(th[t].svc)
       IN  \/ /\ name \notin DOMAIN shadow
              /\ Set(t, Returned(t, "error", "none"))
              /\ UNCHANGED shadow
           \/ /\ name \in DOMAIN shadow
              /\ Set(t, Returned(t, "error", "none"))
              /\ UNCHANGED shadow
           \/ /\ name \in DOMAIN shadow
              /\ shadow' = [n \in (DOMAIN shadow) \ {name} |-> shadow[n]]
              /\ Set(t, Returned(t, "ok", "deleted"))
    /\ UNCHANGED <<table, store, cache, cluster, granted, events>>
    /\ UNCHANGED rvars

\* ----------------------------------------------- the informer's service events

KeysOf(c) == {Key(s) : s \in c}

\* OnAdd: a user service of the cluster (replayed at start) or a new one.
HandlerCreate(s) ==
    /\ th["handler"].pc = "idle"
    /\ events < MaxEvents
    /\ s \in cluster \/ Key(s) \notin KeysOf(cluster)
    /\ cluster' = cluster \cup {s}
    /\ events' = events + 1
    /\ Set("handler", [Fresh("create") EXCEPT !.op = "create", !.svc = s])
    /\ UNCHANGED <<table, store, cache, shadow, granted>>
    /\ UNCHANGED rvars

\* OnUpdate(old, new): the user service changes (or is resynced unchanged).
HandlerUpdate(old, new) ==
    /\ th["handler"].pc = "idle"
    /\ events < MaxEvents
    /\ old \in cluster
    /\ Key(new) = Key(old)
    /\ cluster' = (cluster \ {old}) \cup {new}
    /\ events' = events + 1
    /\ Set("handler", [Fresh("update") EXCEPT !.op = "update", !.svc = new])
    /\ UNCHANGED <<table, store, cache, shadow, granted>>
    /\ UNCHANGED rvars

\* OnDelete: the user service is gone.
HandlerDelete(s) ==
    /\ th["handler"].pc = "idle"
    /\ events < MaxEvents
    /\ s \in cluster
    /\ cluster' = cluster \ {s}
    /\ events' = events + 1
    /\ Set("handler", [Fresh("delete") EXCEPT !.op = "delete", !.svc = s])
    /\ UNCHANGED <<table, store, cache, shadow, granted>>
    /\ UNCHANGED rvars

\* The handler returns to the informer.
HandlerDone ==
    /\ th["handler"].pc = "opRet"
    /\ Set("handler", Fresh("idle"))
    /\ UNCHANGED <<table, store, cache, shadow, cluster, granted, events>>
    /\ UNCHANGED rvars

\* ------------------------------------------------ Run: createMeshServices

\* c.ServiceLister.List(sel): the user services, in some order.
SyncList ==
    /\ th["run"].pc = "sync"
    /\ \E o \in Orderings(cluster) : Set("run", [Fresh("next") EXCEPT !.todo = o])
    /\ UNCHANGED <<table, store, cache, shadow, cluster, granted, events>>
    /\ UNCHANGED rvars

\* One iteration of the loop over svcs: a service whose mesh service exists is
\* passed over, createMeshService is called for the others. After the last one
\* Run goes on to its select loop.
SyncNext ==
    /\ th["run"].pc = "next"
    /\ LET todo == th["run"].todo
       IN  IF todo = <<>>
           THEN Set("run", Fresh("running"))
           ELSE IF MeshName(Head(todo)) \in DOMAIN shadow
           THEN Set("run", [th["run"] EXCEPT !.todo = Tail(todo)])
           ELSE Set("run", [Fresh("create") EXCEPT
                    !.op = "create", !.svc = Head(todo), !.todo = Tail(todo)])
    /\ UNCHANGED <<table, store, cache, shadow, cluster, granted, events>>
    /\ UNCHANGED rvars

\* createMeshService returned: its error ends createMeshServices (Run logs it
\* and goes on), otherwise the loop continues.
SyncReturn ==
    /\ th["run"].pc = "opRet"
    /\ IF th["run"].err = "error"
       THEN Set("run", [Fresh("running") EXCEPT !.err = "error"])
       ELSE Set("run", [Fresh("next") EXCEPT !.todo = th["run"].todo])
    /\ UNCHANGED <<table, store, cache, shadow, cluster, granted, events>>
    /\ UNCHANGED rvars

\* Another writer of the cluster (the API server's own controllers) updates
\* the mesh service between updateMeshService's read and its UpdateService.
ShadowTouch ==
    /\ th["handler"].op = "update"
    /\ th["handler"].pc \in {"find", "submit"}
    /\ th["handler"].tries = 0
    /\ LET name == MeshName(th["handler"].svc)
       IN  /\ name \in DOMAIN shadow
           /\ shadow[name].rv = th["handler"].fetched
           /\ shadow' = ShadowPut(name, shadow[name].ports, shadow[name].rv + 1)
    /\ UNCHANGED <<table, store, cache, cluster, th, granted, events>>
    /\ UNCHANGED rvars

\* ------------------------------------------------------------ specification

\* The clusters a start can find: at most one user service per name.
InitClusters == {c \in SUBSET UserServices : Cardinality(KeysOf(c)) = Cardinality(c)}

NoCycle ==
    [kind |-> "none", tag |-> "none", built |-> "none", last |-> "nil",
     wasReady |-> FALSE, deployed |-> FALSE, pushed |-> {}, result |-> "none",
     iter |-> 0]

InitR ==
    /\ rpc = "select"
    /\ lastConfiguration = "nil"
    /\ ready = FALSE
    /\ pods = [p \in {} |-> [ready |-> TRUE, up |-> TRUE]]
    /\ pending = {}
    /\ failed = {}
    /\ cycle = NoCycle
    /\ delivered = FALSE
    /\ timer = "running"

\* The ConfigMaps a start can find: an empty one, or one an earlier version of
\* the controller wrote ("<name>:<port>", no namespace).
LegacyData == [k \in {Itoa(MinPort)} |-> <<"a", ":", "8", "0">>]

InitData == {EmptyData, LegacyData}

\* NewTCPPortMapping: loadState fills the table from the ConfigMap, then the
\* goroutines start (Run with createMeshServices, the informer's handler).
Init ==
    /\ \E d \in InitData : store = [data |-> d, rv |-> 1]
    /\ cache = store
    /\ table \in LoadStates(store.data)
    /\ shadow = [n \in {} |-> [ports |-> <<>>, rv |-> 0]]
    /\ cluster \in InitClusters
    /\ th = [t \in Threads |-> IF t = "run" THEN Fresh("sync") ELSE Fresh("idle")]
    /\ granted = {}
    /\ events = 0
    /\ InitR

Next ==
    \/ \E t \in Threads :
        \/ FindStep(t)
        \/ ScanStep(t)
        \/ WriteStep(t)
        \/ SaveGet(t)
        \/ SaveMerge(t)
        \/ SaveUpdate(t)
        \/ AddReturn(t)
        \/ CreateCheck(t)
        \/ UpdateGet(t)
        \/ Submit(t)
        \/ DeleteStep(t)
    \/ \E s \in UserServices : HandlerCreate(s)
    \/ \E old \in cluster, new \in UserServices : HandlerUpdate(old, new)
    \/ \E s \in cluster : HandlerDelete(s)
    \/ HandlerDone
    \/ SyncList
    \/ SyncNext
    \/ SyncReturn
    \/ CacheSync
    \/ ShadowTouch

Spec == Init /\ [][Next]_vars

\* Sequential use of the port mapping: the goroutines as above, scheduled so
\* that the calls of getTCPPort (Find, then Add with its saveState) do not
\* overlap.
InGetTCPPort(t) ==
    th[t].pc \in {"find", "scan", "write", "saveGet", "saveMerge", "saveUpdate",
                  "addRet"}

Sequential == ~(\A t \in Threads : InGetTCPPort(t))

\* The steps of Next; the two that can start a call of getTCPPort (the port
\* loop's first tcp port) are taken when no call of the other goroutine is
\* under way.
NextSeq ==
    \/ \E t \in Threads :
        \/ FindStep(t)
        \/ ScanStep(t)
        \/ WriteStep(t)
        \/ SaveGet(t)
        \/ SaveMerge(t)
        \/ SaveUpdate(t)
        \/ AddReturn(t)
        \/ CreateCheck(t) /\ Sequential'
        \/ UpdateGet(t) /\ Sequential'
        \/ Submit(t)
        \/ DeleteStep(t)
    \/ \E s \in UserServices : HandlerCreate(s)
    \/ \E old \in cluster, new \in UserServices : HandlerUpdate(old, new)
    \/ \E s \in cluster : HandlerDelete(s)
    \/ HandlerDone
    \/ SyncList
    \/ SyncNext
    \/ SyncReturn
    \/ CacheSync
    \/ ShadowTouch

SpecSeq == Init /\ [][NextSeq]_vars

\* ------------------------------------------------------------ Controller.Run
\* The select loop of Run, after createMeshServices and api.Start.

\* The mesh pods of the model.
Pods == {"p1", "p2"}

\* The configurations provider.BuildConfig can return.
Configs == {"c1", "c2"}

ConfigMessageChanForce == "force"

ConfigMessageChanRebuild == "normal"

Messages == {ConfigMessageChanRebuild, ConfigMessageChanForce}

\* reflect.DeepEqual(c.lastConfiguration.Get(), conf): the stored value is an
\* interface holding nil or a *dynamic.Configuration, conf a fresh pointer.
DeepEqual(last, conf) == last # "nil" /\ last = conf

\* The condition without its test of the message.
DeployNeededIgnoringForce(message, last, conf) == ~DeepEqual(last, conf)

\* The condition of Run's if: deploy on a forced message or a changed config.
DeployNeeded(message, last, conf) ==
    message = ConfigMessageChanForce \/ ~DeepEqual(last, conf)

\* PodLister.Pods(meshNamespace).List(component=maesh-mesh)
PodList == DOMAIN pods

\* deployConfigurationToUnreadyNodes: the pods with a container not ready
UnreadyPods == {p \in PodList : ~pods[p].ready}

Begin(kind, tag, built) ==
    [kind |-> kind, tag |-> tag, built |-> built, last |-> lastConfiguration,
     wasReady |-> ready, deployed |-> FALSE, pushed |-> {}, result |-> "running",
     iter |-> 1 - cycle.iter]

\* case <-stopCh: return nil
Stop ==
    /\ rpc = "select"
    /\ rpc' = "returned"
    /\ cycle' = [Begin("stop", "none", "none") EXCEPT !.result = "stopped"]
    /\ UNCHANGED <<lastConfiguration, ready, pods, pending, failed, delivered, timer>>
    /\ UNCHANGED avars

\* case message := <-c.configRefreshChan, BuildConfig failing: return confErr
RefreshBuildError(message) ==
    /\ rpc = "select"
    /\ rpc' = "returned"
    /\ cycle' = [Begin("refresh", message, "error") EXCEPT !.result = "buildError"]
    /\ UNCHANGED <<lastConfiguration, ready, pods, pending, failed, delivered, timer>>
    /\ UNCHANGED avars

\* case message := <-c.configRefreshChan, BuildConfig returning conf: when a
\* deploy is needed conf is stored and deployConfiguration lists the pods; no
\* pod is an error (break), otherwise deployToPods starts a task per pod.
Refresh(message, conf) ==
    /\ rpc = "select"
    /\ IF DeployNeeded(message, lastConfiguration, conf)
       THEN /\ lastConfiguration' = conf
            /\ IF PodList = {}
               THEN /\ rpc' = "select"
                    /\ pending' = {}
                    /\ cycle' = [Begin("refresh", message, conf) EXCEPT
                                    !.deployed = TRUE, !.result = "noInstances"]
               ELSE /\ rpc' = "deploy"
                    /\ pending' = PodList
                    /\ cycle' = [Begin("refresh", message, conf) EXCEPT
                                    !.deployed = TRUE]
       ELSE /\ rpc' = "select"
            /\ cycle' = [Begin("refresh", message, conf) EXCEPT !.result = "skipped"]
            /\ UNCHANGED <<lastConfiguration, pending>>
    /\ failed' = {}
    /\ timer' = "running"
    /\ UNCHANGED <<ready, pods, delivered>>
    /\ UNCHANGED avars

\* timer := time.NewTimer(10 * time.Second) at the top of every iteration: the
\* timer of the iteration fires when Run has waited in its select for 10 s.
\* An iteration that took another case leaves its timer behind, and the next
\* iteration waits on a new one.
TimerFires ==
    /\ rpc = "select"
    /\ timer = "running"
    /\ timer' = "fired"
    /\ UNCHANGED <<rpc, lastConfiguration, ready, pods, pending, failed, cycle, delivered>>
    /\ UNCHANGED avars

\* case <-timer.C: the type assertion on c.lastConfiguration.Get() panics
\* while nothing is stored (HandleCrash logs and panics again); otherwise
\* deployConfigurationToUnreadyNodes lists the pods, no pod is an error, and
\* deployToPods starts a task per unready pod.
Tick ==
    /\ rpc = "select"
    /\ timer = "fired"
    /\ IF lastConfiguration = "nil"
       THEN /\ rpc' = "panicked"
            /\ pending' = {}
            /\ cycle' = [Begin("tick", "none", "none") EXCEPT !.result = "panic"]
       ELSE IF PodList = {}
       THEN /\ rpc' = "select"
            /\ pending' = {}
            /\ cycle' = [Begin("tick", "none", "none") EXCEPT !.result = "noInstances"]
       ELSE /\ rpc' = "deploy"
            /\ pending' = UnreadyPods
            /\ cycle' = Begin("tick", "none", "none")
    /\ failed' = {}
    /\ timer' = "running"
    /\ UNCHANGED <<lastConfiguration, ready, pods, delivered>>
    /\ UNCHANGED avars

\* deployToPod under backoff.Retry: the task of pod p ends, with nil when the
\* pod has a name and an IP and answers 200, with an error otherwise.
PushOK(p) == p \in DOMAIN pods /\ pods[p].up

DeployTask(p) ==
    /\ rpc = "deploy"
    /\ p \in pending
    /\ pending' = pending \ {p}
    /\ failed' = IF PushOK(p) THEN failed ELSE failed \cup {p}
    /\ cycle' = [cycle EXCEPT !.pushed = @ \cup {p}]
    /\ UNCHANGED <<rpc, lastConfiguration, ready, pods, delivered, timer>>
    /\ UNCHANGED avars

\* A Wait that never returns an error.
WaitErrorNever == FALSE

\* errg.Wait(): nil when no task returned an error
WaitError == failed # {}

\* errg.Wait() returns: an error is a break, nil enables readiness.
DeployDone ==
    /\ rpc = "deploy"
    /\ pending = {}
    /\ rpc' = "select"
    /\ IF WaitError
       THEN /\ cycle' = [cycle EXCEPT !.result = "pushFailed"]
            /\ UNCHANGED <<ready, delivered>>
       ELSE /\ cycle' = [cycle EXCEPT !.result = "ok"]
            /\ ready' = TRUE
            /\ delivered' = (delivered \/ cycle.pushed # {})
    /\ UNCHANGED <<lastConfiguration, pods, pending, failed, timer>>
    /\ UNCHANGED avars

\* The cluster: a mesh pod appears, disappears, or changes its containers'
\* readiness or its reachability.
PodStates == [ready : BOOLEAN, up : BOOLEAN]

PodSet(p, st) ==
    /\ IF p \in DOMAIN pods THEN pods[p] # st ELSE TRUE
    /\ pods' = [q \in (DOMAIN pods) \cup {p} |-> IF q = p THEN st ELSE pods[q]]
    /\ UNCHANGED <<rpc, lastConfiguration, ready, pending, failed, cycle, delivered, timer>>
    /\ UNCHANGED avars

PodGone(p) ==
    /\ p \in DOMAIN pods
    /\ pods' = [q \in (DOMAIN pods) \ {p} |-> pods[q]]
    /\ UNCHANGED <<rpc, lastConfiguration, ready, pending, failed, cycle, delivered, timer>>
    /\ UNCHANGED avars

InitRun ==
    /\ store = [data |-> EmptyData, rv |-> 1]
    /\ cache = store
    /\ table = EmptyTable
    /\ shadow = [n \in {} |-> [ports |-> <<>>, rv |-> 0]]
    /\ cluster = {}
    /\ th = [t \in Threads |-> IF t = "run" THEN Fresh("running") ELSE Fresh("idle")]
    /\ granted = {}
    /\ events = 0
    /\ InitR

NextRun ==
    \/ Stop
    \/ \E m \in Messages : RefreshBuildError(m)
    \/ \E m \in Messages, c \in Configs : Refresh(m, c)
    \/ TimerFires
    \/ Tick
    \/ \E p \in Pods : DeployTask(p)
    \/ DeployDone
    \/ \E p \in Pods, st \in PodStates : PodSet(p, st)
    \/ \E p \in Pods : PodGone(p)

SpecRun == InitRun /\ [][NextRun]_vars

\* The loop with its scheduling: Run waiting in its select leaves it when a
\* message arrives or, failing that, when the timer fires; a fired timer's
\* case is taken unless another case is; the goroutines of a fan-out end
\* (backoff.Retry gives up after 15 s) and Wait returns. Messages, the stop
\* signal and the pods are the environment's and need not happen.
FairRun ==
    /\ WF_vars(TimerFires \/ \E m \in Messages, c \in Configs : Refresh(m, c))
    /\ WF_vars(Tick)
    /\ WF_vars(\E p \in Pods : DeployTask(p))
    /\ WF_vars(DeployDone)

SpecRunLive == SpecRun /\ FairRun

\* ------------------------------------------------- mesh service names: inputs
\* User services whose names and namespaces hold the hex word of the mesh
\* service name's format, for the calls of userServiceToMeshServiceName.

\* "6d61657368", the hex word of the format string
HexMaesh == <<"6", "d", "6", "1", "6", "5", "7", "3", "6", "8">>

\* Service names: "a" and "a-6d61657368"
NamedNames == {<<"a">>, <<"a", "-">> \o HexMaesh}

\* Namespaces: "c" and "6d61657368-c"
NamedNamespaces == {<<"c">>, HexMaesh \o <<"-", "c">>}

NamedServices ==
    {[Namespace |-> ns, Name |-> n, Annotation |-> "",
      Ports |-> <<PortWeb, PortDNS, PortAlt>>] :
        n \in NamedNames, ns \in NamedNamespaces}

\* A start with any of these user services in the cluster.
InitNames ==
    /\ store = [data |-> EmptyData, rv |-> 1]
    /\ cache = store
    /\ table = EmptyTable
    /\ shadow = [n \in {} |-> [ports |-> <<>>, rv |-> 0]]
    /\ cluster \in SUBSET NamedServices
    /\ th = [t \in Threads |-> IF t = "run" THEN Fresh("sync") ELSE Fresh("idle")]
    /\ granted = {}
    /\ events = 0
    /\ InitR

\* createMeshServices and the service handlers on these services.
NextNames ==
    \/ \E t \in Threads :
        \/ CreateCheck(t)
        \/ UpdateGet(t)
        \/ Submit(t)
        \/ DeleteStep(t)
    \/ \E s \in NamedServices : HandlerCreate(s)
    \/ \E old \in cluster, new \in NamedServices : HandlerUpdate(old, new)
    \/ \E s \in cluster : HandlerDelete(s)
    \/ HandlerDone
    \/ SyncList
    \/ SyncNext
    \/ SyncReturn

SpecNames == InitNames /\ [][NextNames]_vars

\* ------------------------------------------- the mapping's state over restarts
\* NewTCPPortMapping's loadState and Add's saveState in sequential use by one
\* process, and the restart of the process, over documents and refs of any
\* content.

\* Keys of the stored documents: two ports of the range and a key that is no
\* number.
StoredKeys == {Itoa(MinPort), Itoa(MaxPort), <<"x">>}

\* Values of the stored documents: "default/a:80", "c/b:81", the entries
\* "a:80" and "b:81" of an earlier version, and the unparseable "bad" and
\* "c/b:x".
StoredValues ==
    {NamespaceDefault \o <<"/", "a", ":", "8", "0">>,
     <<"c", "/", "b", ":", "8", "1">>,
     <<"a", ":", "8", "0">>,
     <<"b", ":", "8", "1">>,
     <<"b", "a", "d">>,
     <<"c", "/", "b", ":", "x">>}

\* cfg.Data of the stored documents: any of the values under any of the keys.
StoredDocs ==
    UNION {[ks -> StoredValues] : ks \in SUBSET StoredKeys}

\* Namespaces, service names (without ':' and '/') and int32 ports of the refs
\* a caller hands to Add.
RefNamespaces == {NamespaceDefault, <<"c">>, <<"k", "-", "s">>, <<"8">>}

RefNames == {<<"a">>, <<"a", "-", "b">>, <<"w", "e", "b", "1">>, <<"c">>}

RefPorts == {0, 80, 443, 65535, 2147483647, 0 - 1}

Refs ==
    {ServiceWithPort(ns, n, p) : ns \in RefNamespaces, n \in RefNames, p \in RefPorts}

\* A process about to call NewTCPPortMapping on a stored document, or one
\* whose Add has just written ref r under the first port of an empty table
\* (line 102) and calls saveState.
InitRestart ==
    /\ \/ /\ \E d \in StoredDocs : store = [data |-> d, rv |-> 1]
          /\ table = EmptyTable
          /\ th = [t \in Threads |-> IF t = "run" THEN Fresh("new") ELSE Fresh("idle")]
       \/ \E r \in Refs :
             /\ store = [data |-> EmptyData, rv |-> 1]
             /\ table = TableWrite(EmptyTable, MinPort, r)
             /\ th = [t \in Threads |->
                        IF t = "run" THEN [Fresh("loaded") EXCEPT !.ref = r]
                        ELSE Fresh("idle")]
    /\ cache = store
    /\ shadow = [n \in {} |-> [ports |-> <<>>, rv |-> 0]]
    /\ cluster = {}
    /\ granted = {}
    /\ events = 0
    /\ InitR

\* loadState: the entries of the ConfigMap that parse, written into the table.
\* (cfg remembers the document read.)
LoadState ==
    /\ th["run"].pc = "new"
    /\ table' \in LoadStates(cache.data)
    /\ Set("run", [th["run"] EXCEPT !.pc = "loaded", !.cfg = cache])
    /\ UNCHANGED <<store, cache, shadow, cluster, granted, events>>
    /\ UNCHANGED rvars

\* saveState with no other writer: the table merged into a copy of the
\* ConfigMap and the copy stored by Update, or Update failing; the lister's
\* cache follows the store.
SaveState ==
    /\ th["run"].pc = "loaded"
    /\ \/ /\ store' = [data |-> MergeTable(cache.data, table), rv |-> store.rv + 1]
          /\ cache' = store'
          /\ Set("run", [th["run"] EXCEPT !.pc = "saved", !.err = "ok"])
       \/ /\ Set("run", [th["run"] EXCEPT !.pc = "saved", !.err = "error"])
          /\ UNCHANGED <<store, cache>>
    /\ UNCHANGED <<table, shadow, cluster, granted, events>>
    /\ UNCHANGED rvars

\* The process ends and a new one starts with an empty table.
Restart ==
    /\ th["run"].pc = "saved"
    /\ th["run"].tries < MaxRestarts
    /\ table' = EmptyTable
    /\ Set("run", [Fresh("new") EXCEPT !.ref = th["run"].ref,
                                       !.tries = th["run"].tries + 1])
    /\ UNCHANGED <<store, cache, shadow, cluster, granted, events>>
    /\ UNCHANGED rvars

NextRestart ==
    \/ LoadState
    \/ SaveState
    \/ Restart

SpecRestart == InitRestart /\ [][NextRestart]_vars

\* ==================================================================== claims

PortRange == MinPort..MaxPort

Min(S) == CHOOSE x \in S : \A y \in S : x <= y

\* The ref a mesh port of user service s stands for.
RefOf(s, mp) == ServiceWithPort(s.Namespace, s.Name, mp.Port)

\* C1: every entry of the persisted port map has its port within
\* [minPort, maxPort], and no ServicePortRef is stored under two distinct ports.
C1_PersistedMapInRangeInjective ==
    LET data == store.data
    IN  /\ \A k \in DOMAIN data :
            ParseInt(k).ok /\ ParseInt(k).val \in PortRange
        /\ \A k1, k2 \in DOMAIN data :
            (k1 # k2 /\ parseServiceNamePort(data[k1]).ok
                     /\ parseServiceNamePort(data[k2]).ok)
            => parseServiceNamePort(data[k1]).svc # parseServiceNamePort(data[k2]).svc

\* C2: two Add calls for distinct refs, however interleaved, never return the
\* same port, and once both have returned the table holds each ref under the
\* port its Add returned.
C2_ConcurrentAddsKeepBothClaims ==
    \A t1, t2 \in Threads :
        (/\ t1 # t2
         /\ th[t1].pc = "addRet" /\ th[t1].ret.err = "ok"
         /\ th[t2].pc = "addRet" /\ th[t2].ret.err = "ok"
         /\ th[t1].ref # th[t2].ref)
        => /\ th[t1].ret.port # th[t2].ret.port
           /\ Get(table, th[t1].ret.port) = th[t1].ref
           /\ Get(table, th[t2].ret.port) = th[t2].ref

\* C3: when a tcp-mode mesh service has just been created or updated with an
\* allocator-assigned targetPort p for ref r, the persisted port map maps p to
\* r, so that the table a restart loads from it gives p for Find(r).
C3_MeshTargetPortPersisted ==
    \A t \in Threads :
        (/\ th[t].pc = "opRet"
         /\ th[t].did \in {"created", "updated"}
         /\ ServiceMode(th[t].svc) = ServiceTypeTCP)
        => \A k \in 1..Len(th[t].ports) :
            LET mp == th[t].ports[k]
                key == Itoa(mp.TargetPort)
            IN  /\ key \in DOMAIN store.data
                /\ parseServiceNamePort(store.data[key]) =
                        [ok |-> TRUE, svc |-> RefOf(th[t].svc, mp)]
                /\ \A tb \in LoadStates(store.data) :
                        FindPorts(tb, RefOf(th[t].svc, mp)) = {mp.TargetPort}

C4_AddStep(t) ==
    LET r == th[t]
        n == th'[t]
        free == {q \in PortRange : q \notin DOMAIN n.callTable}
    IN  /\ (r.pc = "write" /\ n.pc # "write") =>
            /\ r.i \in PortRange
            /\ r.i \notin DOMAIN r.callTable
            /\ \A q \in MinPort..(r.i - 1) : q \in DOMAIN table
            /\ DOMAIN table' = (DOMAIN table) \cup {r.i}
            /\ table'[r.i] = r.ref
            /\ \A q \in (DOMAIN table) \ {r.i} : table'[q] = table[q]
        /\ (r.pc # "addRet" /\ n.pc = "addRet") =>
            /\ n.ret.err \in {"ok", "save", "exhausted"}
            /\ n.ret.err = "exhausted" =>
                /\ n.ret.port = 0
                /\ r.pc = "scan"
                /\ \A q \in PortRange : q \in DOMAIN table'
                /\ table' = table /\ store' = store
            /\ n.ret.err = "ok" =>
                /\ n.ret.port = n.i
                /\ r.pc = "saveUpdate"
                /\ store'.rv # store.rv
            /\ n.ret.err = "save" =>
                /\ n.ret.port = 0
                /\ r.pc = "saveUpdate"
                /\ store' = store
            /\ free = {} => n.ret.err = "exhausted"
            /\ (DOMAIN table' \subseteq (DOMAIN n.callTable) \cup {n.i}) =>
                /\ (n.ret.err = "exhausted") <=> (free = {})
                /\ n.ret.err # "exhausted" => n.i = Min(free)

C5_AddOfAssignedRefReturnsItsPort ==
    \A t \in Threads :
        (th[t].pc = "addRet" /\ FindPorts(th[t].callTable, th[t].ref) # {})
        => /\ th[t].ret.err = "ok"
           /\ th[t].ret.port \in FindPorts(th[t].callTable, th[t].ref)
           /\ FindPorts(table, th[t].ref) = FindPorts(th[t].callTable, th[t].ref)

\* C6: once Run is in its loop, no failure inside a cycle (BuildConfig error,
\* no mesh pod, a failed push) makes the loop exit or crash.
C6_CycleFailureKeepsLoop ==
    rpc \in {"returned", "panicked"}
    => cycle.result \notin {"buildError", "noInstances", "pushFailed"}

\* C7: readiness set implies that an earlier fan-out ended without error
\* after delivering to at least one pod; a cycle that pushes to no pod never
\* sets readiness.
C7_ReadyOnlyAfterDelivery ==
    /\ ready => delivered
    /\ cycle.result = "ok" => cycle.pushed # {}

\* C8: for a refresh signal whose configuration was built, the fan-out is
\* invoked iff the tag is force or the built configuration is not deep-equal
\* to the last stored one; with tag normal and a deep-equal configuration no
\* push is made and the stored configuration and readiness are unchanged.
C8_RefreshDeploysIffForceOrChanged ==
    (cycle.kind = "refresh" /\ cycle.built \in Configs)
    => /\ cycle.deployed <=>
            (cycle.tag = ConfigMessageChanForce \/ cycle.last = "nil"
             \/ cycle.last # cycle.built)
       /\ (cycle.tag # ConfigMessageChanForce /\ cycle.last = cycle.built)
            => /\ cycle.pushed = {}
               /\ pending = {}
               /\ rpc = "select"
               /\ lastConfiguration = cycle.last
               /\ ready = cycle.wasReady

\* C8 witness: a normal refresh with an unchanged configuration was skipped
\* while readiness was set.
C8_Witness ==
    /\ cycle.kind = "refresh"
    /\ cycle.tag = ConfigMessageChanRebuild
    /\ cycle.last = cycle.built
    /\ cycle.result = "skipped"
    /\ ready

\* C9: when Add has claimed port p for ref and the save fails, Add returns an
\* error and the claim stays: Find(ref) gives p, Get(p) gives ref, and no other
\* entry of the table is changed.
C9_FailedSaveKeepsClaim ==
    \A t \in Threads :
        (th[t].pc = "addRet" /\ th[t].ret.err = "save")
        => /\ th[t].ret.port = 0
           /\ FindPorts(table, th[t].ref) = {th[t].i}
           /\ Get(table, th[t].i) = th[t].ref
           /\ \A q \in (DOMAIN th[t].callTable) \ {th[t].i} :
                Get(table, q) = th[t].callTable[q]

\* C10: after Add(ref) has returned port p, Find(ref) gives p in every later
\* state, under any interleaving with other Add calls, and so does the table
\* a reload builds from the persisted port map.
C10_ReturnedPortStaysFound ==
    \A g \in granted :
        /\ FindPorts(table, g.ref) = {g.port}
        /\ \A tb \in LoadStates(store.data) : FindPorts(tb, g.ref) = {g.port}

\* C11: when createMeshServices has returned (no service event handled
\* meanwhile), every user service of the cluster has its mesh service, also
\* when the creation of another service's mesh service failed: at most the
\* service whose creation failed is without one.
C11_SyncCreatesEveryMeshService ==
    (th["run"].pc = "running" /\ events = 0)
    => LET missing == {s \in cluster : MeshName(s) \notin DOMAIN shadow}
       IN  /\ th["run"].err # "error" => missing = {}
           /\ Cardinality(missing) <= 1

\* C12: deleteMeshService deletes the mesh service when it exists; when none
\* exists under the derived name it returns no error and changes nothing.
C12_DeleteCall(t) ==
    (th[t].pc = "delete" /\ th'[t].pc = "opRet")
    => LET name == MeshName(th[t].svc)
       IN  IF name \in DOMAIN shadow
           THEN th'[t].err = "ok" <=> name \notin DOMAIN shadow'
           ELSE th'[t].err = "ok" /\ shadow' = shadow

C12_DeleteOfMissingIsSuccess == [][\A t \in Threads : C12_DeleteCall(t)]_vars

\* C13: the mesh service name is a function of the user service's key, and
\* two distinct keys never derive the same name: a create, update or delete
\* under way for one user service never addresses the mesh service that
\* another user service of the cluster derives.
C13_MeshNameInjective ==
    \A t \in Threads : \A s \in cluster :
        (th[t].pc \in {"create", "update", "submit", "delete"}
         /\ Key(s) # Key(th[t].svc))
        => MeshName(s) # MeshName(th[t].svc)

\* C14: after a refresh cycle whose fan-out failed (no mesh pod found, or a
\* push failed), the next refresh signal, normal or force, with the same
\* built configuration invokes the fan-out again.
C14_RefreshAfterFailure ==
    (/\ rpc = "select"
     /\ cycle.kind = "refresh"
     /\ cycle.result \in {"noInstances", "pushFailed"}
     /\ cycle'.kind = "refresh"
     /\ cycle'.built = cycle.built)
    => cycle'.deployed

C14_FailedFanOutIsRetried == [][C14_RefreshAfterFailure]_vars

\* C15: when the Update of the port-map ConfigMap answers Conflict, the retry
\* reads the ConfigMap again (from the lister or the API server) and merges
\* the table into what it has just read, instead of submitting the version
\* it held before.
C15_RetryStep(t) ==
    (th[t].pc = "saveUpdate" /\ th'[t].pc = "saveMerge")
    => th'[t].cfg \in {cache, store}

C15_ConflictRetryRereads == [][\A t \in Threads : C15_RetryStep(t)]_vars

\* C16: when an Add returns a port, every entry of the table (the claims of
\* earlier Adds whose save failed included) is in the persisted port map
\* under the same port with the same ref. (The claim of another Add that has
\* not yet returned is left out.)
C16_InFlight(t) ==
    {th[u].i : u \in {v \in Threads \ {t} :
                        th[v].pc \in {"saveGet", "saveMerge", "saveUpdate"}}}

C16_AddSuccess(t) ==
    (th[t].pc = "saveUpdate" /\ th'[t].pc = "addRet" /\ th'[t].ret.err = "ok")
    => \A p \in (DOMAIN table') \ C16_InFlight(t) :
        /\ Itoa(p) \in DOMAIN store'.data
        /\ parseServiceNamePort(store'.data[Itoa(p)]) = [ok |-> TRUE, svc |-> table'[p]]

C16_SuccessPersistsWholeTable == [][\A t \in Threads : C16_AddSuccess(t)]_vars

\* C17: one fan-out starts a push for every pod of its list (all listed pods
\* on a refresh, the unready ones on a tick), each push ends whether or not
\* another has failed, the fan-out returns only when all have ended, and it
\* returns an error iff at least one push failed.
C17_FanOutStep ==
    /\ (rpc = "select" /\ rpc' = "deploy")
        => /\ pending' = (IF cycle'.kind = "refresh" THEN PodList ELSE UnreadyPods)
           /\ pending' # {} \/ cycle'.kind = "tick"
           /\ cycle'.pushed = {}
           /\ failed' = {}
    /\ (rpc = "deploy" /\ rpc' = "deploy" /\ pending' # pending)
        => /\ \E p \in pending :
                /\ pending' = pending \ {p}
                /\ cycle'.pushed = cycle.pushed \cup {p}
                /\ failed' = (IF PushOK(p) THEN failed ELSE failed \cup {p})
    /\ (rpc = "deploy" /\ pending # {})
        => /\ rpc' = "deploy"
           /\ \A p \in pending : ENABLED DeployTask(p)
    /\ (rpc = "deploy" /\ rpc' # "deploy")
        => /\ pending = {}
           /\ rpc' = "select"
           /\ failed \subseteq cycle.pushed
           /\ (cycle'.result = "pushFailed") <=> (failed # {})
           /\ (cycle'.result = "ok") <=> (failed = {})

C17_FanOutBestEffortAll == [][C17_FanOutStep]_vars

\* C17 witness: a fan-out over two pods has returned an error after one push
\* failed and the other succeeded.
C17_Witness ==
    /\ rpc = "select"
    /\ cycle.result = "pushFailed"
    /\ failed # {}
    /\ cycle.pushed \ failed # {}

\* C18: if a mesh pod stays listed, with a container not ready, and
\* reachable, and Run is never stopped (and never leaves its loop), then a
\* tick eventually pushes the stored configuration to it, whatever refresh
\* messages arrive.
C18_Unready(p) == p \in DOMAIN pods /\ ~pods[p].ready /\ pods[p].up

C18_TickReachesUnreadyPod ==
    \A p \in Pods :
        (<>[]C18_Unready(p) /\ [](rpc \notin {"returned", "panicked"}))
        => []<>(cycle.kind = "tick" /\ p \in cycle.pushed)

\* C19: for an http-mode user service, create and update build a port list
\* with, in declared order, one entry per TCP port of the user service and
\* none for the other ports; the entry of the source port at 0-based index id
\* (skipped ports counted) has the source's name and port and targetPort
\* 5000 + id.
RECURSIVE C19_HTTPPorts(_, _)
C19_HTTPPorts(ports, k) ==
    IF k > Len(ports) THEN <<>>
    ELSE (IF ports[k].Protocol = "TCP"
          THEN <<[Name |-> ports[k].Name, Port |-> ports[k].Port,
                  TargetPort |-> 5000 + (k - 1)]>>
          ELSE <<>>)
         \o C19_HTTPPorts(ports, k + 1)

C19_HTTPPortList ==
    \A t \in Threads :
        (/\ th[t].op \in {"create", "update"}
         /\ ServiceMode(th[t].svc) = "http"
         /\ \/ th[t].pc = "submit"
            \/ th[t].pc = "opRet" /\ th[t].did \in {"created", "updated"})
        => th[t].ports = C19_HTTPPorts(th[t].svc.Ports, 1)

\* C19 witness: an update of an http-mode service with ports TCP, UDP, TCP has
\* written the two TCP ports in order, with targetPorts 5000 and 5002.
C19_Witness ==
    /\ th["handler"].pc = "opRet"
    /\ th["handler"].did = "updated"
    /\ ServiceMode(th["handler"].svc) = "http"
    /\ th["handler"].svc.Ports[2].Protocol = "UDP"
    /\ th["handler"].ports = <<[Name |-> "web", Port |-> 80, TargetPort |-> 5000],
                               [Name |-> "alt", Port |-> 81, TargetPort |-> 5002]>>
    /\ shadow[MeshName(th["handler"].svc)].ports = th["handler"].ports

\* C20: when Add finds the range exhausted for a port of a tcp-mode service,
\* the scan that found it and the return of the error change no table entry,
\* no stored mapping and no mesh service; the port loop leaves the port out of
\* the list, keeps the ports already built and goes on with the next port (or
\* with the creation when there is none); a port the allocator does supply is
\* appended with the source port's name and number; and the creation writes
\* the mesh service of this user service with exactly the list built, leaving
\* every other mesh service and the table as they are.
C20_SharedUnchanged ==
    /\ table' = table
    /\ store' = store
    /\ shadow' = shadow
    /\ granted' = granted

C20_ScanFails(t) ==
    (th[t].pc = "scan" /\ th'[t].pc = "addRet")
        => /\ th'[t].ret = [port |-> 0, err |-> "exhausted"]
           /\ th'[t].ports = th[t].ports
           /\ C20_SharedUnchanged

C20_Skip(t) ==
    (th[t].pc = "addRet" /\ th[t].ret.err = "exhausted" /\ th'[t] # th[t])
        => /\ th'[t].ports = th[t].ports
           /\ th'[t].op = th[t].op
           /\ th'[t].svc = th[t].svc
           /\ th'[t].id > th[t].id
           /\ \/ /\ th'[t].pc = "find"
                 /\ th'[t].id < Len(th[t].svc.Ports)
                 /\ th'[t].svc.Ports[th'[t].id + 1].Protocol = ProtocolTCP
                 /\ \A k \in (th[t].id + 2)..th'[t].id :
                        th[t].svc.Ports[k].Protocol # ProtocolTCP
              \/ /\ th'[t].pc = "submit"
                 /\ \A k \in (th[t].id + 2)..Len(th[t].svc.Ports) :
                        th[t].svc.Ports[k].Protocol # ProtocolTCP
           /\ C20_SharedUnchanged

C20_Keep(t) ==
    (th[t].pc = "addRet" /\ th[t].ret.err = "ok" /\ th'[t] # th[t])
        => LET sp == th[t].svc.Ports[th[t].id + 1]
           IN  /\ th'[t].ports =
                      Append(th[t].ports, [Name |-> sp.Name, Port |-> sp.Port,
                                           TargetPort |-> th[t].ret.port])
               /\ th'[t].pc \in {"find", "submit"}

C20_Create(t) ==
    (th[t].pc = "submit" /\ th[t].op = "create" /\ th'[t].pc = "opRet"
     /\ th'[t].did = "created")
        => /\ MeshName(th[t].svc) \in DOMAIN shadow'
           /\ shadow'[MeshName(th[t].svc)].ports = th[t].ports
           /\ \A n \in DOMAIN shadow : n \in DOMAIN shadow' /\ shadow'[n] = shadow[n]
           /\ table' = table
           /\ store' = store

C20_ExhaustedPortIsSkipped ==
    [][\A t \in Threads :
          C20_ScanFails(t) /\ C20_Skip(t) /\ C20_Keep(t) /\ C20_Create(t)]_vars

\* C20 witness: startup has created the mesh service of tcp-mode service a
\* (ports 80 and 81) with port 80 alone, the range being full and holding no
\* port for a:81, next to the mesh service of b made before it.
C20_Witness ==
    /\ th["run"].pc = "opRet"
    /\ th["run"].did = "created"
    /\ th["run"].svc.Name = <<"a">>
    /\ ServiceMode(th["run"].svc) = ServiceTypeTCP
    /\ Len(th["run"].svc.Ports) = 2
    /\ Len(th["run"].ports) = 1
    /\ th["run"].ports[1].Name = "web"
    /\ th["run"].ports[1].TargetPort \in DOMAIN table
    /\ DOMAIN table = MinPort..MaxPort
    /\ \A p \in DOMAIN table : table[p] # ServiceWithPort(th["run"].svc.Namespace,
                                                         th["run"].svc.Name, 81)
    /\ shadow[MeshName(th["run"].svc)].ports = th["run"].ports
    /\ \E n \in DOMAIN shadow :
          /\ n # MeshName(th["run"].svc)
          /\ Len(shadow[n].ports) = 1
          /\ shadow[n].ports[1].TargetPort \in DOMAIN table

\* C21: when the allocator has been rehydrated from a stored document and the
\* table is saved back at once, the stored document is identical to the one
\* that was loaded.
C21_RehydrateSaveIsIdentity ==
    (/\ th["run"].pc = "saved"
     /\ th["run"].err = "ok"
     /\ th["run"].cfg.rv # 0)
        => store.data = th["run"].cfg.data

\* C22: a ref with a namespace and a name without ':' and '/' and an int32
\* port, formatted into the stored document by saveState and parsed from it
\* by loadState, comes back as exactly that namespace, name and port (and the
\* two functions applied to it directly give the same).
C22_ParseOfFormatIsIdentity ==
    LET r == th["run"].ref
    IN  (/\ th["run"].pc = "loaded"
         /\ th["run"].tries > 0
         /\ r # NoRef
         /\ Itoa(MinPort) \in DOMAIN th["run"].cfg.data)
            => /\ table = TableWrite(EmptyTable, MinPort, r)
               /\ parseServiceNamePort(
                     formatServiceNamePort(r.Name, r.Namespace, r.Port))
                  = [ok |-> TRUE, svc |-> r]

\* C22 witness: the ref k-s/a-b:2147483647 has been stored as the string
\* "k-s/a-b:2147483647" and loaded again after a restart.
C22_Witness ==
    /\ th["run"].pc = "loaded"
    /\ th["run"].tries > 0
    /\ th["run"].ref = ServiceWithPort(<<"k", "-", "s">>, <<"a", "-", "b">>, 2147483647)
    /\ Itoa(MinPort) \in DOMAIN th["run"].cfg.data
    /\ th["run"].cfg.data[Itoa(MinPort)] =
          <<"k", "-", "s", "/", "a", "-", "b", ":",
            "2", "1", "4", "7", "4", "8", "3", "6", "4", "7">>
    /\ table[MinPort] = th["run"].ref

\* C23: in every reachable state of the loop, a tick that is handled neither
\* crashes Run nor pushes a configuration that was never stored, also when it
\* comes before any refresh has stored one.
C23_TickIsSafe ==
    cycle.kind = "tick"
        => /\ cycle.result # "panic"
           /\ rpc # "panicked"
           /\ cycle.pushed # {} => lastConfiguration # "nil"

\* C24: when the calls of getTCPPort do not overlap, no ref is under two ports
\* of the table; a port returned with success (by Find or by Add) is the
\* table's port of the ref, and the entries of the table stay as they are, so
\* that every later success for the ref returns the same port; after an Add
\* whose save failed the ref keeps its port, and a call that finds the ref in
\* the table returns through Find without calling Add.
C24_Slots(tbl, ref) == {p \in DOMAIN tbl : tbl[p] = ref}

C24_OneSlotPerRef(tbl) ==
    \A p, q \in DOMAIN tbl : tbl[p] = tbl[q] => p = q

C24_Call(t) ==
    /\ (th[t].pc = "find" /\ th'[t] # th[t] /\ C24_Slots(table, th[t].ref) # {})
         => /\ th'[t].pc # "scan"
            /\ Len(th'[t].ports) = Len(th[t].ports) + 1
            /\ C24_Slots(table, th[t].ref)
                 = {th'[t].ports[Len(th'[t].ports)].TargetPort}
    /\ (th[t].pc = "addRet" /\ th'[t] # th[t] /\ th[t].ret.err = "ok")
         => /\ C24_Slots(table, th[t].ref) = {th[t].ret.port}
            /\ th'[t].ports[Len(th'[t].ports)].TargetPort = th[t].ret.port
    /\ (th[t].pc = "addRet" /\ th[t].ret.err = "save")
         => C24_Slots(table, th[t].ref) = {th[t].i}

C24_SequentialLookupIsStable ==
    [][/\ C24_OneSlotPerRef(table)
       /\ C24_OneSlotPerRef(table')
       /\ \A p \in DOMAIN table : p \in DOMAIN table' /\ table'[p] = table[p]
       /\ \A t \in Threads : C24_Call(t)]_vars

\* C24 witness: the handler's update has got, through Find, the port that an
\* earlier Add claimed for the ref without being able to save it (the stored
\* document is still empty and no Add has returned a port).
C24_Witness ==
    /\ th["handler"].op = "update"
    /\ th["handler"].pc \in {"find", "submit"}
    /\ Len(th["handler"].ports) > 0
    /\ LET mp == th["handler"].ports[1]
       IN  /\ mp.TargetPort \in DOMAIN table
           /\ table[mp.TargetPort] = RefOf(th["handler"].svc, mp)
    /\ store.data = EmptyData
    /\ granted = {}

\* C25: port assignments are never released. No step removes an entry of the
\* table or a key of the persisted document; with calls of getTCPPort that do
\* not overlap no entry of the table changes its ref; and the steps of a
\* delete of a user service, and of an update of one to http mode, leave the
\* table and the persisted document as they are.
C25_NoRelease ==
    /\ \A p \in DOMAIN table : p \in DOMAIN table' /\ table'[p] = table[p]
    /\ \A k \in DOMAIN store.data : k \in DOMAIN store'.data

C25_FrameOf(t) ==
    (/\ th'[t] # th[t]
     /\ \/ "delete" \in {th[t].op, th'[t].op}
        \/ /\ "update" \in {th[t].op, th'[t].op}
           /\ ServiceMode(IF th'[t].op = "update" THEN th'[t].svc ELSE th[t].svc)
                # ServiceTypeTCP)
        => /\ table' = table
           /\ store' = store

C25_AssignmentsOnlyGrow ==
    [][C25_NoRelease /\ \A t \in Threads : C25_FrameOf(t)]_vars

\* C25 witness: service default/a, which had port 80 assigned in tcp mode, has
\* been updated to http mode: its mesh service points at 5001 and the table
\* and the persisted document still hold the assignment.
C25_Witness ==
    /\ th["handler"].pc = "opRet"
    /\ th["handler"].did = "updated"
    /\ ServiceMode(th["handler"].svc) = "http"
    /\ shadow[MeshName(th["handler"].svc)].ports
         = <<[Name |-> "web", Port |-> 80, TargetPort |-> 5001]>>
    /\ \E p \in DOMAIN table :
          /\ table[p] = ServiceWithPort(th["handler"].svc.Namespace,
                                        th["handler"].svc.Name, 80)
          /\ Itoa(p) \in DOMAIN store.data
          /\ store.data[Itoa(p)] = NamespaceDefault \o <<"/", "a", ":", "8", "0">>

====
